---- MODULE Spec2Model ----
(***************************************************************************)
(* jsbuilder: rendering of a Python syntax tree to JavaScript text.        *)
(*                                                                         *)
(* Text is a sequence of tokens whose concatenation is the Python string.  *)
(* Identifier and string-literal characters are one token each, and so are *)
(* the punctuation characters the code or the properties look at           *)
(* ( . [ ] ( ) { } ; newline and the double quote ).                       *)
(*                                                                         *)
(* A Python value is a record tagged by ty: "None", "int" (n), "bool" (b), *)
(* "str" (s), "list" (v), or "node" (an ast node, whose class name is cls  *)
(* and whose other fields are the node's __dict__).                        *)
(***************************************************************************)
EXTENDS Integers, Sequences, FiniteSets, TLC

\* ---------------------------------------------------------------- bounds
MaxRenders == 2
MaxBody == 2
MaxChain == 3

\* ------------------------------------------------------------ text helpers
RECURSIVE Join(_, _)
Join(parts, sep) ==
    IF parts = <<>> THEN <<>>
    ELSE IF Len(parts) = 1 THEN parts[1]
    ELSE parts[1] \o sep \o Join(Tail(parts), sep)

\* a test that finds no character in any text
Has_Never(tok, t) == FALSE

\* tok in t
Has(tok, t) == \E i \in 1..Len(t) : t[i] = tok

Quote(s) == <<"\"">> \o s \o <<"\"">>

Null == <<"n", "u", "l", "l">>

\* ------------------------------------------------------------ Python values
VNone == [ty |-> "None"]
VInt(n) == [ty |-> "int", n |-> n]
VBool(b) == [ty |-> "bool", b |-> b]
VStr(s) == [ty |-> "str", s |-> s]
VList(xs) == [ty |-> "list", v |-> xs]

\* str(x) as applied by the %s conversion
PyStr(x) ==
    CASE x.ty = "str" -> x.s
      [] x.ty = "int" -> <<ToString(x.n)>>
      [] x.ty = "bool" -> IF x.b THEN <<"True">> ELSE <<"False">>
      [] x.ty = "None" -> <<"None">>
      [] OTHER -> <<"<object>">>

\* ------------------------------------------------------------------ _Scope
\* A scope chain is the sequence of the frames' identifier sets, outermost
\* first; the last one is the frame of the _Scope object itself.
NewScope(parent) == Append(parent, {})

\* enter_new that hands back the scope it was called on
enter_new_Same(sc) == sc

\* return _Scope(self)
enter_new(sc) == NewScope(sc)

\* add(identifiers) iterates its argument: a sequence of names adds each
\* name, a str adds each of its characters.
add(sc, identifiers) ==
    [sc EXCEPT ![Len(sc)] = @ \cup {identifiers[i] : i \in 1..Len(identifiers)}]

addStr(sc, t) == add(sc, [i \in 1..Len(t) |-> <<t[i]>>])

RECURSIVE contains(_, _)
contains(sc, x) ==
    IF sc = <<>> THEN FALSE
    ELSE IF x \in sc[Len(sc)] THEN TRUE
    ELSE contains(SubSeq(sc, 1, Len(sc) - 1), x)

\* ----------------------------------------------------------------- _PARSERS
Lit(t) == [lit |-> t]
Fld(k) == [fld |-> k, raw |-> FALSE]
Raw(k) == [fld |-> k, raw |-> TRUE]

Templates ==
    [Return |-> <<Lit(<<"return ">>), Fld("value")>>,
     Delete |-> <<Lit(<<"delete ">>), Fld("targets")>>,
     AugAssign |-> <<Fld("target"), Lit(<<" ">>), Fld("op"), Lit(<<"= ">>), Fld("value")>>,
     For |-> <<Fld("iter"), Lit(<<".", "forEach", "(", "(">>), Fld("target"),
               Lit(<<", ", "_i", ")", " => ", "{", "\n">>), Fld("body"),
               Lit(<<"\n", "}", ")">>)>>,
     While |-> <<Lit(<<"while ", "(">>), Fld("test"), Lit(<<")", " ", "{", "\n">>),
                 Fld("body"), Lit(<<"\n", "}">>)>>,
     If |-> <<Lit(<<"if ", "(">>), Fld("test"), Lit(<<")", " ", "{", "\n">>),
              Fld("body"), Lit(<<"\n", "}", " else ", "{", "\n">>),
              Fld("orelse"), Lit(<<"\n", "}">>)>>,
     Raise |-> <<Lit(<<"throw new Error", "(">>), Fld("exc"), Lit(<<")">>)>>,
     Expr |-> <<Fld("value")>>,
     Pass |-> <<>>,
     BinOp |-> <<Lit(<<"(">>), Fld("left"), Lit(<<" ">>), Fld("op"), Lit(<<" ">>),
                 Fld("right"), Lit(<<")">>)>>,
     UnaryOp |-> <<Lit(<<"(">>), Fld("op"), Fld("operand"), Lit(<<")">>)>>,
     IfExp |-> <<Lit(<<"(">>), Fld("test"), Lit(<<")", " ? ", "(">>), Fld("body"),
                 Lit(<<")", " : ", "(">>), Fld("orelse"), Lit(<<")">>)>>,
     Constant |-> <<Fld("value")>>,
     Attribute |-> <<Fld("value"), Lit(<<".">>), Raw("attr")>>,
     Subscript |-> <<Fld("value"), Lit(<<"[">>), Fld("slice"), Lit(<<"]">>)>>,
     Name |-> <<Raw("id")>>,
     Index |-> <<Fld("value")>>,
     And |-> <<Lit(<<"&&">>)>>,
     Or |-> <<Lit(<<"||">>)>>,
     Add |-> <<Lit(<<"+">>)>>,
     Sub |-> <<Lit(<<"-">>)>>,
     Mult |-> <<Lit(<<"*">>)>>,
     Div |-> <<Lit(<<"/">>)>>,
     Mod |-> <<Lit(<<"%">>)>>,
     LShift |-> <<Lit(<<"<<">>)>>,
     RShift |-> <<Lit(<<">>">>)>>,
     BitOr |-> <<Lit(<<"|">>)>>,
     BitXor |-> <<Lit(<<"^">>)>>,
     BitAnd |-> <<Lit(<<"&">>)>>,
     Invert |-> <<Lit(<<"~">>)>>,
     Not |-> <<Lit(<<"!">>)>>,
     UAdd |-> <<Lit(<<"+">>)>>,
     USub |-> <<Lit(<<"-">>)>>,
     Eq |-> <<Lit(<<"===">>)>>,
     NotEq |-> <<Lit(<<"!==">>)>>,
     Lt |-> <<Lit(<<"<">>)>>,
     LtE |-> <<Lit(<<"<=">>)>>,
     Gt |-> <<Lit(<<">">>)>>,
     GtE |-> <<Lit(<<">=">>)>>,
     Break |-> <<Lit(<<"break">>)>>,
     Continue |-> <<Lit(<<"continue">>)>>,
     Num |-> <<Fld("n")>>,
     Str |-> <<Fld("s")>>,
     Bytes |-> <<Lit(<<"\"">>), Fld("s"), Lit(<<"\"">>)>>,
     NameConstant |-> <<Fld("value")>>]

Procedural ==
    {"FunctionDef", "Assign", "BoolOp", "Lambda", "Dict", "Compare", "Call",
     "List", "arguments"}

\* the keys of _PARSERS
_PARSERS == DOMAIN Templates \cup Procedural

\* ------------------------------------------------------------------ results
\* t: the text returned; n: the value as the call leaves it (the node's
\* __dict__ is written by _DictWrapper); s: the scope chain as the call
\* leaves it; l: what was done so far, in order: the statement sequences
\* joined (parts, t), the assignment targets written and the definitions
\* left (ev); e: the class the raised exception names, "" when none is raised.
Res(t, n, s, l, e) == [t |-> t, n |-> n, s |-> s, l |-> l, e |-> e]

Fail(r, n) == Res(<<>>, n, r.s, r.l, r.e)

\* what the parent chain of a child scope is once the child is dropped
Parent(child, sc) == SubSeq(child, 1, Len(sc))

RECURSIVE _to_str(_, _)
RECURSIVE RenderSeq(_, _)
RECURSIVE Format(_, _, _, _)
RECURSIVE AssignTargets(_, _, _)
RECURSIVE ZipRender(_, _, _, _)

\* a join that ends every statement with the separator
JoinStatements_Terminated(parts) ==
    IF parts = <<>> THEN <<>> ELSE Join(parts, <<";", "\n">>) \o <<";", "\n">>

\* ";\n".join(...) of line 329
JoinStatements(parts) == Join(parts, <<";", "\n">>)

\* The generator (_to_str(x, scope) for x in arg), consumed to its end or
\* to the first exception: parts are the texts, n the items as left.
RenderSeq(items, sc) ==
    IF items = <<>>
    THEN [parts |-> <<>>, n |-> <<>>, s |-> sc, l |-> <<>>, e |-> ""]
    ELSE LET h == _to_str(Head(items), sc) IN
         IF h.e # ""
         THEN [parts |-> <<>>, n |-> <<h.n>> \o Tail(items), s |-> h.s,
               l |-> h.l, e |-> h.e]
         ELSE LET r == RenderSeq(Tail(items), h.s) IN
              [parts |-> <<h.t>> \o r.parts, n |-> <<h.n>> \o r.n, s |-> r.s,
               l |-> h.l \o r.l, e |-> r.e]

_to_str_iter(arg, sc) == RenderSeq(arg.v, sc)

\* a __getitem__ that keeps no record of the keys it has parsed
getitem_NoMemo(d, parsed, p, sc) ==
    LET k == p.fld
        r == _to_str(d[k], sc)
    IN IF p.raw
       THEN [val |-> d[k], d |-> d, parsed |-> parsed, s |-> sc, l |-> <<>>,
             e |-> "", rendered |-> FALSE]
       ELSE [val |-> VStr(r.t), d |-> [d EXCEPT ![k] = VStr(r.t)],
             parsed |-> parsed, s |-> r.s, l |-> r.l, e |-> r.e,
             rendered |-> TRUE]

\* _DictWrapper.__getitem__(k) for the placeholder p; rendered tells whether
\* _to_str was called
getitem(d, parsed, p, sc) ==
    LET k == p.fld IN
    IF k \notin DOMAIN d
    THEN [val |-> VNone, d |-> d, parsed |-> parsed, s |-> sc, l |-> <<>>,
          e |-> "KeyError", rendered |-> FALSE]
    ELSE IF k \in parsed \/ p.raw
    THEN [val |-> d[k], d |-> d, parsed |-> parsed \cup {k}, s |-> sc,
          l |-> <<>>, e |-> "", rendered |-> FALSE]
    ELSE LET r == _to_str(d[k], sc) IN
         IF r.e # ""
         THEN [val |-> VNone, d |-> [d EXCEPT ![k] = r.n], parsed |-> parsed,
               s |-> r.s, l |-> r.l, e |-> r.e, rendered |-> TRUE]
         ELSE [val |-> VStr(r.t), d |-> [d EXCEPT ![k] = VStr(r.t)],
               parsed |-> parsed \cup {k}, s |-> r.s, l |-> r.l, e |-> "",
               rendered |-> TRUE]

\* parser % _DictWrapper(node.__dict__, scope)
Format(pieces, d, parsed, sc) ==
    IF pieces = <<>> THEN Res(<<>>, d, sc, <<>>, "")
    ELSE LET p == Head(pieces) IN
         IF "lit" \in DOMAIN p
         THEN LET r == Format(Tail(pieces), d, parsed, sc) IN
              Res(p.lit \o r.t, r.n, r.s, r.l, r.e)
         ELSE LET g == getitem(d, parsed, p, sc) IN
              IF g.e # "" THEN Res(<<>>, g.d, g.s, g.l, g.e)
              ELSE LET r == Format(Tail(pieces), g.d, g.parsed, g.s) IN
                   Res(PyStr(g.val) \o r.t, r.n, r.s, g.l \o r.l, r.e)

\* scope.add(t) of line 154, t being the rendered target, a str
DeclareTarget(sc, t) == addStr(sc, t)

\* the loop of _parse_assign over the lazily rendered targets
AssignTargets(targets, value, sc) ==
    IF targets = <<>>
    THEN [parts |-> <<>>, n |-> <<>>, s |-> sc, l |-> <<>>, e |-> ""]
    ELSE LET h == _to_str(Head(targets), sc) IN
         IF h.e # ""
         THEN [parts |-> <<>>, n |-> <<h.n>> \o Tail(targets), s |-> h.s,
               l |-> h.l, e |-> h.e]
         ELSE LET t == h.t
                  is_in_scope == contains(h.s, t)
                  is_field_assignment == Has(".", t)
                  is_arr_assignment == Has("[", t)
                  plain == is_in_scope \/ is_field_assignment \/ is_arr_assignment
                  sc2 == IF plain THEN h.s ELSE DeclareTarget(h.s, t)
                  a == IF plain THEN t \o <<" = ">> \o value
                       ELSE <<"var ">> \o t \o <<" = ">> \o value
                  r == AssignTargets(Tail(targets), value, sc2)
                  ev == [ev |-> "assign", cls |-> Head(targets).cls, t |-> t,
                         var |-> ~plain, before |-> h.s, after |-> sc2]
              IN [parts |-> <<a>> \o r.parts, n |-> <<h.n>> \o r.n, s |-> r.s,
                  l |-> h.l \o <<ev>> \o r.l, e |-> r.e]

_parse_assign(node, sc) ==
    LET v == _to_str(node.value, sc) IN
    IF v.e # "" THEN Fail(v, [node EXCEPT !.value = v.n])
    ELSE LET r == AssignTargets(node.targets.v, v.t, v.s)
             n2 == [node EXCEPT !.value = v.n, !.targets = VList(r.n)]
         IN IF r.e # "" THEN Res(<<>>, n2, r.s, v.l \o r.l, r.e)
            ELSE Res(Join(r.parts, <<";">>), n2, r.s, v.l \o r.l, "")

_parse_bool_op(node, sc) ==
    LET op == _to_str(node.op, sc) IN
    IF op.e # "" THEN Fail(op, [node EXCEPT !.op = op.n])
    ELSE LET r == _to_str_iter(node.values, op.s)
             n2 == [node EXCEPT !.op = op.n, !.values = VList(r.n)]
         IN Res(IF r.e # "" THEN <<>> ELSE Join(r.parts, op.t), n2, r.s,
                op.l \o r.l, r.e)

\* zip(xs, ys) over two lazy renderings, each pair formatted "%s<sep>%s"
ZipRender(xs, ys, sep, sc) ==
    IF xs = <<>>
    THEN [parts |-> <<>>, nx |-> <<>>, ny |-> ys, s |-> sc, l |-> <<>>, e |-> ""]
    ELSE LET x == _to_str(Head(xs), sc) IN
         IF x.e # ""
         THEN [parts |-> <<>>, nx |-> <<x.n>> \o Tail(xs), ny |-> ys, s |-> x.s,
               l |-> x.l, e |-> x.e]
         ELSE IF ys = <<>>
         THEN [parts |-> <<>>, nx |-> <<x.n>> \o Tail(xs), ny |-> ys, s |-> x.s,
               l |-> x.l, e |-> ""]
         ELSE LET y == _to_str(Head(ys), x.s) IN
              IF y.e # ""
              THEN [parts |-> <<>>, nx |-> <<x.n>> \o Tail(xs),
                    ny |-> <<y.n>> \o Tail(ys), s |-> y.s, l |-> x.l \o y.l,
                    e |-> y.e]
              ELSE LET r == ZipRender(Tail(xs), Tail(ys), sep, y.s) IN
                   [parts |-> <<x.t \o sep \o y.t>> \o r.parts,
                    nx |-> <<x.n>> \o r.nx, ny |-> <<y.n>> \o r.ny, s |-> r.s,
                    l |-> x.l \o y.l \o r.l, e |-> r.e]

_parse_compare(node, sc) ==
    LET left == _to_str(node.left, sc) IN
    IF left.e # "" THEN Fail(left, [node EXCEPT !.left = left.n])
    ELSE LET r == ZipRender(node.ops.v, node.comparators.v, <<" ">>, left.s)
             n2 == [node EXCEPT !.left = left.n, !.ops = VList(r.nx),
                                !.comparators = VList(r.ny)]
         IN Res(IF r.e # "" THEN <<>>
                ELSE left.t \o <<" ">> \o Join(r.parts, <<" ">>),
                n2, r.s, left.l \o r.l, r.e)

_parse_call(node, sc) ==
    LET func == _to_str(node.func, sc) IN
    IF func.e # "" THEN Fail(func, [node EXCEPT !.func = func.n])
    ELSE LET r == _to_str_iter(node.args, func.s)
             n2 == [node EXCEPT !.func = func.n, !.args = VList(r.n)]
         IN Res(IF r.e # "" THEN <<>>
                ELSE func.t \o <<"(">> \o Join(r.parts, <<", ">>) \o <<")">>,
                n2, r.s, func.l \o r.l, r.e)

_parse_dict(node, sc) ==
    LET r == ZipRender(node.keys.v, node.values.v, <<":", " ">>, sc)
        n2 == [node EXCEPT !.keys = VList(r.nx), !.values = VList(r.ny)]
    IN Res(IF r.e # "" THEN <<>>
           ELSE <<"{">> \o Join(r.parts, <<", ">>) \o <<"}">>,
           n2, r.s, r.l, r.e)

\* ", ".join(x.arg for x in node.args)
_parse_arguments(node, sc) ==
    Res(Join([i \in 1..Len(node.args.v) |-> node.args.v[i].arg.s], <<", ">>),
        node, sc, <<>>, "")

\* what a function or lambda definition did: the chain it was given, the
\* chain of its body when the body ends, and the chain it leaves
Defined(node, sc, child) ==
    [ev |-> "def", cls |-> node.cls, before |-> sc, inner |-> child,
     after |-> Parent(child, sc)]

\* a child scope in which the parameters are not declared
ParamScope_Empty(node, sc) == enter_new(sc)

\* new_scope = scope.enter_new(); new_scope.add(x.arg for x in node.args.args)
ParamScope(node, sc) ==
    add(enter_new(sc),
        [i \in 1..Len(node.args.args.v) |-> node.args.args.v[i].arg.s])

_parse_function_def(node, sc) ==
    LET new_scope == ParamScope(node, sc)
        args == _to_str(node.args, new_scope)
    IN IF args.e # ""
       THEN Res(<<>>, [node EXCEPT !.args = args.n], Parent(args.s, sc),
                args.l, args.e)
       ELSE LET body == _to_str(node.body, args.s)
                n2 == [node EXCEPT !.args = args.n, !.body = body.n]
            IN Res(IF body.e # "" THEN <<>>
                   ELSE <<"function ">> \o node.name.s \o <<"(">> \o args.t
                        \o <<")", " ", "{", "\n">> \o body.t \o <<"\n", "}">>,
                   n2, Parent(body.s, sc),
                   args.l \o body.l \o <<Defined(node, sc, body.s)>>, body.e)

_parse_lambda(node, sc) ==
    LET new_scope == ParamScope(node, sc)
        args == _to_str(node.args, new_scope)
    IN IF args.e # ""
       THEN Res(<<>>, [node EXCEPT !.args = args.n], Parent(args.s, sc),
                args.l, args.e)
       ELSE LET body == _to_str(node.body, args.s)
                n2 == [node EXCEPT !.args = args.n, !.body = body.n]
            IN Res(IF body.e # "" THEN <<>>
                   ELSE <<"(", "(">> \o args.t \o <<")", " => ", "(">> \o body.t
                        \o <<")", ")">>,
                   n2, Parent(body.s, sc),
                   args.l \o body.l \o <<Defined(node, sc, body.s)>>, body.e)

_parse_list(node, sc) ==
    LET r == RenderSeq(node.elts.v, sc) IN
    Res(IF r.e # "" THEN <<>>
        ELSE <<"[">> \o Join(r.parts, <<", ">>) \o <<"]">>,
        [node EXCEPT !.elts = VList(r.n)], r.s, r.l, r.e)

_to_str(node, sc) ==
    CASE node.ty = "list" ->
           LET r == RenderSeq(node.v, sc) IN
           IF r.e # "" THEN Res(<<>>, VList(r.n), r.s, r.l, r.e)
           ELSE LET t == JoinStatements(r.parts) IN
                Res(t, VList(r.n), r.s,
                    Append(r.l, [parts |-> r.parts, t |-> t]), "")
      [] node.ty = "None" -> Res(Null, node, sc, <<>>, "")
      [] node.ty = "str" -> Res(Quote(node.s), node, sc, <<>>, "")
      [] node.ty = "int" -> Res(<<ToString(node.n)>>, node, sc, <<>>, "")
      [] node.ty = "bool" ->
           Res(IF node.b THEN <<"true">> ELSE <<"false">>, node, sc, <<>>, "")
      [] node.ty = "node" /\ node.cls \notin _PARSERS ->
           Res(<<>>, node, sc, <<>>, node.cls)
      [] node.ty = "node" /\ node.cls \in DOMAIN Templates ->
           Format(Templates[node.cls], node, {}, sc)
      [] node.ty = "node" /\ node.cls = "Assign" -> _parse_assign(node, sc)
      [] node.ty = "node" /\ node.cls = "BoolOp" -> _parse_bool_op(node, sc)
      [] node.ty = "node" /\ node.cls = "Compare" -> _parse_compare(node, sc)
      [] node.ty = "node" /\ node.cls = "Call" -> _parse_call(node, sc)
      [] node.ty = "node" /\ node.cls = "Dict" -> _parse_dict(node, sc)
      [] node.ty = "node" /\ node.cls = "FunctionDef" ->
           _parse_function_def(node, sc)
      [] node.ty = "node" /\ node.cls = "Lambda" -> _parse_lambda(node, sc)
      [] node.ty = "node" /\ node.cls = "List" -> _parse_list(node, sc)
      [] node.ty = "node" /\ node.cls = "arguments" ->
           _parse_arguments(node, sc)

\* ------------------------------------------------------------- ast nodes
Name(id) == [ty |-> "node", cls |-> "Name", id |-> VStr(id)]
Constant(v) == [ty |-> "node", cls |-> "Constant", value |-> v]
Op(cls) == [ty |-> "node", cls |-> cls]
Pass == [ty |-> "node", cls |-> "Pass"]
Expr(v) == [ty |-> "node", cls |-> "Expr", value |-> v]
Assign(ts, v) ==
    [ty |-> "node", cls |-> "Assign", targets |-> VList(ts), value |-> v]
If(t, b, o) ==
    [ty |-> "node", cls |-> "If", test |-> t, body |-> VList(b),
     orelse |-> VList(o)]
While(t, b) ==
    [ty |-> "node", cls |-> "While", test |-> t, body |-> VList(b),
     orelse |-> VList(<<>>)]
For(tg, it, b) ==
    [ty |-> "node", cls |-> "For", target |-> tg, iter |-> it,
     body |-> VList(b), orelse |-> VList(<<>>)]
Arg(n) == [ty |-> "node", cls |-> "arg", arg |-> VStr(n)]
Arguments(ps) ==
    [ty |-> "node", cls |-> "arguments",
     args |-> VList([i \in 1..Len(ps) |-> Arg(ps[i])])]
FunctionDef(n, ps, b) ==
    [ty |-> "node", cls |-> "FunctionDef", name |-> VStr(n),
     args |-> Arguments(ps), body |-> VList(b)]
Lambda(ps, b) ==
    [ty |-> "node", cls |-> "Lambda", args |-> Arguments(ps), body |-> b]
BinOp(l, op, r) ==
    [ty |-> "node", cls |-> "BinOp", left |-> l, op |-> Op(op), right |-> r]
UnaryOp(op, x) ==
    [ty |-> "node", cls |-> "UnaryOp", op |-> Op(op), operand |-> x]
BoolOp(op, xs) ==
    [ty |-> "node", cls |-> "BoolOp", op |-> Op(op), values |-> VList(xs)]
Compare(l, ops, cs) ==
    [ty |-> "node", cls |-> "Compare", left |-> l,
     ops |-> VList([i \in 1..Len(ops) |-> Op(ops[i])]),
     comparators |-> VList(cs)]
IfExp(t, b, o) ==
    [ty |-> "node", cls |-> "IfExp", test |-> t, body |-> b, orelse |-> o]
Keyword(k, v) == [ty |-> "node", cls |-> "keyword", arg |-> VStr(k), value |-> v]
Call(f, as, kws) ==
    [ty |-> "node", cls |-> "Call", func |-> f, args |-> VList(as),
     keywords |-> VList(kws)]
Attribute(v, a) ==
    [ty |-> "node", cls |-> "Attribute", value |-> v, attr |-> VStr(a)]
Subscript(v, sl) ==
    [ty |-> "node", cls |-> "Subscript", value |-> v, slice |-> sl]
ListNode(xs) == [ty |-> "node", cls |-> "List", elts |-> VList(xs)]
Dict(ks, vs) ==
    [ty |-> "node", cls |-> "Dict", keys |-> VList(ks), values |-> VList(vs)]
Tuple(xs) == [ty |-> "node", cls |-> "Tuple", elts |-> VList(xs)]

\* ------------------------------------------------ the functions rendered
A == <<"a">>
B == <<"b">>
AB == <<"a", "b">>
C == <<"c">>
F == <<"f">>
G == <<"g">>
XS == <<"x", "s">>
Names == {A, AB}
One == Constant(VInt(1))
Cond == Name(C)

SeqsUpTo(S, k) == UNION {[1..m -> S] : m \in 1..k}

AssignTo(n) == Assign(<<Name(n)>>, One)
Assigns == {AssignTo(n) : n \in Names}
Leaves == Assigns \cup {Pass}
Bodies == SeqsUpTo(Leaves, MaxBody)
ParamLists == {<<>>, <<A>>, <<AB>>, <<A, AB>>}

\* one compound statement over bodies of plain statements
Blocks ==
    {If(Cond, b, o) : b \in Bodies, o \in SeqsUpTo(Leaves, 1) \cup {<<>>}}
    \cup {While(Cond, b) : b \in Bodies}
    \cup {For(Name(n), Name(XS), b) : n \in Names, b \in Bodies}
    \cup {FunctionDef(F, ps, b) : ps \in ParamLists, b \in Bodies}

\* compound statements nested in one another
Inner ==
    {If(Cond, <<l>>, o) : l \in Assigns, o \in {<<>>} \cup {<<m>> : m \in Assigns}}
    \cup {While(Cond, <<l>>) : l \in Assigns}
    \cup {For(Name(A), Name(XS), <<l>>) : l \in Assigns}
    \cup {FunctionDef(G, ps, <<l>>) : ps \in {<<>>, <<A>>, <<AB>>}, l \in Assigns}
Nested ==
    {FunctionDef(F, <<n>>, <<i>>) : n \in Names, i \in Inner}
    \cup {If(Cond, <<i>>, <<>>) : i \in Inner}
    \cup {While(Cond, <<i>>) : i \in Inner}
    \cup {FunctionDef(F, <<n>>,
            <<If(Cond, <<FunctionDef(G, <<>>, <<While(Cond, <<l>>)>>)>>, <<>>)>>) :
          n \in Names, l \in Assigns}

Around == {<<>>} \cup {<<l>> : l \in Assigns}

\* assignments to an attribute and to a subscript, each made twice
Compound ==
    {Attribute(Name(A), B), Subscript(Name(A), One), Subscript(Name(AB), Name(A))}
CompoundWrites == {<<Assign(<<t>>, One), Assign(<<t>>, One)>> : t \in Compound}

\* two function definitions side by side
Siblings ==
    {<<FunctionDef(F, <<>>, <<l>>), FunctionDef(G, ps, <<m>>)>> :
        l \in Assigns, m \in Assigns, ps \in {<<>>, <<A>>}}

\* chained assignments
ChainTargets == {Name(n) : n \in Names} \cup {Attribute(Name(A), B)}
Chains == {Assign(ts, One) : ts \in SeqsUpTo(ChainTargets, MaxChain)}

\* expressions
Atoms == {Name(A), One, Tuple(<<>>)}
Over(X) ==
    {UnaryOp("Not", x) : x \in X}
    \cup {BinOp(x, "Add", y) : x \in X, y \in X}
    \cup {BoolOp("And", <<x, y>>) : x \in X, y \in X}
    \cup {Compare(x, <<"Lt">>, <<y>>) : x \in X, y \in X}
    \cup {IfExp(x, y, One) : x \in X, y \in X}
    \cup {Lambda(<<A>>, x) : x \in X}
    \cup {Call(Name(F), <<x>>, <<>>) : x \in X}
    \cup {Call(Name(F), <<One>>, <<Keyword(A, x)>>) : x \in X}
    \cup {Attribute(x, B) : x \in X}
    \cup {Subscript(x, y) : x \in X, y \in X}
    \cup {ListNode(<<x, y>>) : x \in X, y \in X}
    \cup {Dict(<<x>>, <<y>>) : x \in X, y \in X}
Exprs1 == Over(Atoms)
Exprs2 ==
    {UnaryOp("Not", x) : x \in Exprs1}
    \cup {BinOp(One, "Mult", x) : x \in Exprs1}
    \cup {BoolOp("Or", <<x, Name(A)>>) : x \in Exprs1}
    \cup {Compare(One, <<"Eq">>, <<x>>) : x \in Exprs1}
    \cup {Lambda(<<A>>, x) : x \in Exprs1}
Exprs == Atoms \cup Exprs1 \cup Exprs2

\* the bodies of the decorated functions
PlainBodies ==
    Bodies
    \cup {pre \o <<s>> \o post :
            pre \in Around, s \in Blocks \cup Nested, post \in Around}
    \cup Siblings
    \cup {pre \o w : pre \in Around, w \in CompoundWrites}
    \cup {<<FunctionDef(F, <<A>>, w)>> : w \in CompoundWrites}
    \cup {pre \o <<c>> : pre \in Around, c \in Chains}
    \cup {<<FunctionDef(F, <<n>>, <<c>>)>> : n \in Names, c \in Chains}
    \cup {<<Expr(e)>> : e \in Exprs}
    \cup {<<Assign(<<Name(A)>>, e)>> : e \in Exprs1}

\* the bodies rendered with pre-bound names
BoundBodies == Bodies \cup {<<i>> : i \in Inner}

\* @js(name=value, ...): the keyword arguments, in order
Values == {VInt(1), VStr(<<"h">>), VNone}
InitialScopes ==
    {<<[k |-> n, v |-> x]>> : n \in Names, x \in Values}
    \cup {<<[k |-> p[1], v |-> VInt(1)], [k |-> p[2], v |-> VInt(1)]>> :
            p \in {q \in Names \X Names : q[1] # q[2]}}

Keys(initial_scope) == {initial_scope[i].k : i \in 1..Len(initial_scope)}

\* ast.parse of the text "k = " + _to_str(v, empty_scope), for the values
\* above: a number or a quoted string parses to a Constant, null to a Name
ParseInitial(kv) ==
    Assign(<<Name(kv.k)>>,
           CASE kv.v.ty = "int" -> Constant(kv.v)
             [] kv.v.ty = "str" -> Constant(kv.v)
             [] kv.v.ty = "None" -> Name(Null))

\* JSFunc.__init__: the text of the declarations of the pre-bound names
InitialCodeJs(initial_scope) ==
    LET empty_scope == NewScope(<<>>)
        body == VList([i \in 1..Len(initial_scope) |-> ParseInitial(initial_scope[i])])
    IN IF initial_scope = <<>> THEN <<>>
       ELSE _to_str(body, empty_scope).t \o <<";">>

\* ------------------------------------------------------------------ state
VARIABLES
    _orig,             \* the body of the decorated function, as written
    _code,             \* JSFunc._code: the tree the render passes work on
    _initial_scope,    \* JSFunc._initial_scope
    _initial_code_js,  \* JSFunc._initial_code_js
    calls,             \* number of str() calls made
    out,               \* what the last str() call returned or raised
    prev,              \* what the call before it returned or raised
    log,               \* the statement sequences the last pass joined
    jsfuncs,           \* two JSFunc objects rendered by two threads
    threads,           \* the position of each thread in its str() call
    scopes,            \* the _Scope object each of these calls made
    scope,             \* the _Scope object of the last pass, as the pass leaves it
    trace,             \* the targets written and definitions left by the last pass
    wrapper,           \* one _DictWrapper: _dict, _parsed_keys, _scope
    original,          \* the __dict__ of its node when the wrapper was made
    reads              \* the __getitem__ calls made on it, in order

vars ==
    <<_orig, _code, _initial_scope, _initial_code_js, calls, out, prev, log,
      jsfuncs, threads, scopes, scope, trace, wrapper, original, reads>>

Parallel == <<jsfuncs, threads, scopes>>
Cache == <<wrapper, original, reads>>

NoResult == [txt |-> <<>>, err |-> "none"]

Init ==
    /\ \E body \in PlainBodies \cup BoundBodies, is \in {<<>>} \cup InitialScopes :
          /\ is = <<>> => body \in PlainBodies
          /\ is # <<>> => body \in BoundBodies
          /\ _orig = VList(body)
          /\ _code = VList(body)
          /\ _initial_scope = is
          /\ _initial_code_js = InitialCodeJs(is)
    /\ calls = 0
    /\ out = NoResult
    /\ prev = NoResult
    /\ log = <<>>
    /\ jsfuncs = <<>>
    /\ threads = <<>>
    /\ scopes = <<>>
    /\ scope = <<>>
    /\ trace = <<>>
    /\ wrapper = <<>>
    /\ original = <<>>
    /\ reads = <<>>

IsJoin(x) == "parts" \in DOMAIN x
IsEvent(x) == "ev" \in DOMAIN x

\* JSFunc.__str__
Str ==
    /\ calls < MaxRenders
    /\ LET r == _to_str(_code, NewScope(<<Keys(_initial_scope)>>)) IN
          /\ _code' = r.n
          /\ out' = IF r.e # "" THEN [txt |-> <<>>, err |-> r.e]
                    ELSE [txt |-> _initial_code_js \o r.t, err |-> ""]
          /\ log' = SelectSeq(r.l, IsJoin)
          /\ trace' = SelectSeq(r.l, IsEvent)
          /\ scope' = r.s
    /\ prev' = out
    /\ calls' = calls + 1
    /\ UNCHANGED <<_orig, _initial_scope, _initial_code_js>>
    /\ UNCHANGED <<Parallel, Cache>>

Next == Str

Spec == Init /\ [][Next]_vars

\* ------------------------------------------- two passes in two threads
\* Two JSFunc objects, each rendered once by its own thread.  A str() call
\* is taken apart at the items of the generator that line 329 joins: the
\* call makes its _Scope, renders the statements of _code one by one, and
\* joins and returns.  A thread switch can fall between any two of these.
MaxPar == 2

ParBlocks ==
    {If(Cond, <<l>>, <<>>) : l \in Assigns}
    \cup {FunctionDef(F, <<A>>, <<l>>) : l \in Assigns}

ParBodies ==
    SeqsUpTo(Leaves, MaxPar)
    \cup {<<s, l>> : s \in ParBlocks, l \in Assigns}
    \cup {<<l, Expr(Tuple(<<>>))>> : l \in Assigns}

ParScopes == {<<>>, <<[k |-> A, v |-> VInt(1)]>>}

JSFunc(body, initial_scope) ==
    [_orig |-> VList(body), _code |-> VList(body),
     _initial_scope |-> initial_scope,
     _initial_code_js |-> InitialCodeJs(initial_scope)]

Threads == {1, 2}

\* both calls use one _Scope object
ScopeRef_Shared(i) == 1

\* _Scope(self._initial_scope) of line 133: an object of the call's own
ScopeRef(i) == i

InitPar ==
    /\ \E b1 \in ParBodies, b2 \in ParBodies, is \in ParScopes :
          jsfuncs = <<JSFunc(b1, is), JSFunc(b2, <<>>)>>
    /\ threads = [i \in Threads |->
                    [pc |-> "idle", k |-> 1, scope |-> 0, parts |-> <<>>,
                     out |-> NoResult]]
    /\ scopes = [i \in Threads |-> <<>>]
    /\ _orig = VList(<<>>)
    /\ _code = VList(<<>>)
    /\ _initial_scope = <<>>
    /\ _initial_code_js = <<>>
    /\ calls = 0
    /\ out = NoResult
    /\ prev = NoResult
    /\ log = <<>>
    /\ scope = <<>>
    /\ trace = <<>>
    /\ wrapper = <<>>
    /\ original = <<>>
    /\ reads = <<>>

Sequential ==
    <<_orig, _code, _initial_scope, _initial_code_js, calls, out, prev, log,
      scope, trace>>

\* __str__ is entered: the _Scope of the pass is made
StrCall(i) ==
    /\ threads[i].pc = "idle"
    /\ scopes' = [scopes EXCEPT ![ScopeRef(i)] =
                     NewScope(<<Keys(jsfuncs[i]._initial_scope)>>)]
    /\ threads' = [threads EXCEPT ![i].pc = "run", ![i].scope = ScopeRef(i)]
    /\ UNCHANGED <<jsfuncs, Sequential, Cache>>

\* the generator of line 329 renders the next statement of _code
StrItem(i) ==
    /\ threads[i].pc = "run"
    /\ threads[i].k <= Len(jsfuncs[i]._code.v)
    /\ LET k == threads[i].k
           h == _to_str(jsfuncs[i]._code.v[k], scopes[threads[i].scope])
       IN /\ jsfuncs' = [jsfuncs EXCEPT ![i]._code.v[k] = h.n]
          /\ scopes' = [scopes EXCEPT ![threads[i].scope] = h.s]
          /\ threads' =
                IF h.e # ""
                THEN [threads EXCEPT ![i].pc = "done", ![i].k = k + 1,
                                     ![i].out = [txt |-> <<>>, err |-> h.e]]
                ELSE [threads EXCEPT ![i].k = k + 1,
                                     ![i].parts = Append(@, h.t)]
    /\ UNCHANGED <<Sequential, Cache>>

\* the join of line 329 and the return of line 131
StrReturn(i) ==
    /\ threads[i].pc = "run"
    /\ threads[i].k > Len(jsfuncs[i]._code.v)
    /\ threads' =
          [threads EXCEPT ![i].pc = "done",
                          ![i].out = [txt |-> jsfuncs[i]._initial_code_js
                                              \o JoinStatements(threads[i].parts),
                                      err |-> ""]]
    /\ UNCHANGED <<jsfuncs, scopes, Sequential, Cache>>

NextPar ==
    \/ \E i \in Threads : StrCall(i)
    \/ \E i \in Threads : StrItem(i)
    \/ \E i \in Threads : StrReturn(i)

SpecPar == InitPar /\ [][NextPar]_vars

\* ------------------------------------------------------ one _DictWrapper
\* A _DictWrapper made over the __dict__ of one node, as _to_str makes it
\* for a template, and the reads a template can make of it: %(k)s and
\* %(raw_k)s for the fields k of the node, any number of times in any order.
MaxReads == 3

WrappedNodes ==
    {Name(A), Constant(VInt(1)), Attribute(Name(A), B),
     BinOp(One, "Add", Name(A)), If(Cond, <<AssignTo(A)>>, <<AssignTo(A)>>),
     Subscript(Name(A), Tuple(<<>>))}

WrapperScopes == {NewScope(<<{}>>), add(NewScope(<<{}>>), <<A>>)}

\* the keys of node.__dict__
Fields(node) == DOMAIN node \ {"ty", "cls"}

InitCache ==
    /\ \E node \in WrappedNodes, sc \in WrapperScopes :
          /\ original = node
          /\ wrapper = [_dict |-> node, _parsed_keys |-> {}, _scope |-> sc]
    /\ reads = <<>>
    /\ jsfuncs = <<>>
    /\ threads = <<>>
    /\ scopes = <<>>
    /\ _orig = VList(<<>>)
    /\ _code = VList(<<>>)
    /\ _initial_scope = <<>>
    /\ _initial_code_js = <<>>
    /\ calls = 0
    /\ out = NoResult
    /\ prev = NoResult
    /\ log = <<>>
    /\ scope = <<>>
    /\ trace = <<>>

\* wrapper[key], key being k or "raw_" + k; an exception ends the pass
GetItem ==
    /\ Len(reads) < MaxReads
    /\ \A i \in 1..Len(reads) : reads[i].e = ""
    /\ \E k \in Fields(original), raw \in BOOLEAN :
          LET g == getitem(wrapper._dict, wrapper._parsed_keys,
                           IF raw THEN Raw(k) ELSE Fld(k), wrapper._scope)
          IN /\ wrapper' = [_dict |-> g.d, _parsed_keys |-> g.parsed,
                            _scope |-> g.s]
             /\ reads' = Append(reads,
                            [k |-> k, raw |-> raw, val |-> g.val, e |-> g.e,
                             rendered |-> g.rendered,
                             before |-> wrapper._scope])
    /\ UNCHANGED <<original, Sequential, Parallel>>

NextCache == GetItem

SpecCache == InitCache /\ [][NextCache]_vars

\* ------------------------------------------- reading the emitted JavaScript
\* The assignments of a text, found by one pass over its tokens that keeps
\* the stack of the open blocks: each assignment gives the target as
\* written, whether `var ` precedes it, the right-hand side up to the end of
\* the statement, and the blocks around it (kind "top", "fn" with the
\* parameters, "for" with the loop variable, "if", "else", "while", and
\* "dict" for the braces of a dict literal), each with its own id.
Letters == {"a", "b", "c", "f", "g", "h", "l", "n", "s", "u", "x"}

IsName(t) == t # <<>> /\ \A i \in 1..Len(t) : t[i] \in Letters

Scan0 ==
    [stack |-> <<[kind |-> "top", id |-> 0, params |-> {}]>>, mode |-> "norm",
     kw |-> "", pend |-> {}, cur |-> <<>>, var |-> FALSE, n |-> 0,
     open |-> FALSE, ev |-> <<>>]

ScanStep(st, t, i) ==
    LET tok == t[i]
        p1 == IF i > 1 THEN t[i - 1] ELSE ""
        p2 == IF i > 2 THEN t[i - 2] ELSE ""
        more == [st EXCEPT !.cur = Append(@, tok)]
        reset == [st EXCEPT !.cur = <<>>, !.var = FALSE, !.open = FALSE]
        value == [st EXCEPT !.ev[Len(st.ev)].val = Append(@, tok)]
    IN
    CASE st.mode = "fname" ->
           IF tok = "(" THEN [st EXCEPT !.mode = "params", !.pend = {}, !.cur = <<>>]
           ELSE st
      [] st.mode = "params" ->
           IF tok = ")"
           THEN [st EXCEPT !.mode = "norm", !.cur = <<>>,
                           !.pend = IF st.cur = <<>> THEN @ ELSE @ \cup {st.cur}]
           ELSE IF tok = ", "
           THEN [st EXCEPT !.pend = @ \cup {st.cur}, !.cur = <<>>]
           ELSE more
      [] st.mode = "fortarget" ->
           IF tok = "(" THEN st
           ELSE IF tok = ", "
           THEN [st EXCEPT !.mode = "norm", !.pend = {st.cur}, !.cur = <<>>]
           ELSE more
      [] st.mode = "norm" /\ tok = "function " ->
           [reset EXCEPT !.mode = "fname", !.kw = "fn"]
      [] st.mode = "norm" /\ tok = "forEach" ->
           [reset EXCEPT !.mode = "fortarget"]
      [] st.mode = "norm" /\ tok = "if " -> [reset EXCEPT !.kw = "if"]
      [] st.mode = "norm" /\ tok = "while " -> [reset EXCEPT !.kw = "while"]
      [] st.mode = "norm" /\ tok = "{" ->
           LET kind == IF p1 = " else " THEN "else"
                       ELSE IF p1 = " => " THEN "for"
                       ELSE IF p1 = " " /\ p2 = ")" THEN st.kw
                       ELSE "dict"
               base == IF kind = "dict" THEN (IF st.open THEN value ELSE more)
                       ELSE reset
           IN [base EXCEPT !.n = st.n + 1,
                           !.stack = Append(@,
                              [kind |-> kind, id |-> st.n + 1,
                               params |-> IF kind \in {"fn", "for"} THEN st.pend
                                          ELSE {}])]
      [] st.mode = "norm" /\ tok = "}" ->
           LET top == st.stack[Len(st.stack)]
               base == IF top.kind = "dict" THEN (IF st.open THEN value ELSE more)
                       ELSE reset
           IN IF Len(st.stack) = 1 THEN base
              ELSE [base EXCEPT !.stack = SubSeq(@, 1, Len(@) - 1)]
      [] st.mode = "norm" /\ tok = "var " -> [reset EXCEPT !.var = TRUE]
      [] st.mode = "norm" /\ tok = " = " ->
           [st EXCEPT !.ev = Append(@, [name |-> st.cur, var |-> st.var,
                                        val |-> <<>>, path |-> st.stack]),
                      !.open = TRUE, !.cur = <<>>, !.var = FALSE]
      [] st.mode = "norm" /\ tok \in {";", "\n"} -> reset
      [] OTHER -> IF st.open THEN value ELSE more

\* the tokens lo..hi, read in order from the state st
RECURSIVE ScanRange(_, _, _, _)
ScanRange(t, lo, hi, st) ==
    IF lo > hi THEN st
    ELSE IF lo = hi THEN ScanStep(st, t, lo)
    ELSE LET mid == (lo + hi) \div 2
             st2 == ScanRange(t, lo, mid, st)
         IN IF st2.n < 0 THEN st2 ELSE ScanRange(t, mid + 1, hi, st2)

Assignments(t) == ScanRange(t, 1, Len(t), Scan0).ev

Emitted == Assignments(out.txt)

Rendered == out.err = ""

Blocks_(e, K) == {i \in 1..Len(e.path) : e.path[i].kind \in K}

Max(S) == CHOOSE x \in S : \A y \in S : y <= x

\* the parameters of the functions around an assignment
FnParams(e) == UNION {e.path[i].params : i \in Blocks_(e, {"fn"})}

\* the frame of an assignment: the innermost function body, or the top level
FrameAt(e) == Max(Blocks_(e, {"top", "fn"}))
Frame(e) == e.path[FrameAt(e)].id
\* the frames around it, its own included
Frames(e) == {e.path[i].id : i \in Blocks_(e, {"top", "fn"})}
\* the kinds of the blocks of its frame that it stands in
Within(e) == {e.path[i].kind : i \in FrameAt(e) + 1..Len(e.path)}

RECURSIVE Offset(_, _)
Offset(parts, i) ==
    IF i = 1 THEN 0 ELSE Offset(parts, i - 1) + Len(parts[i - 1]) + 2

\* t is the parts in order, ";" and a line break between consecutive ones
\* and nothing after the last
LaidOut(parts, t) ==
    /\ Len(t) = IF parts = <<>> THEN 0
                ELSE Offset(parts, Len(parts)) + Len(parts[Len(parts)])
    /\ \A i \in 1..Len(parts) :
          /\ SubSeq(t, Offset(parts, i) + 1, Offset(parts, i) + Len(parts[i]))
               = parts[i]
          /\ i < Len(parts) =>
               /\ t[Offset(parts, i) + Len(parts[i]) + 1] = ";"
               /\ t[Offset(parts, i) + Len(parts[i]) + 2] = "\n"

\* C10 (statement sequences): every statement sequence a render pass has
\* rendered -- the body of the function and the bodies of the blocks in it
\* -- came out as its statements' texts in order, with `;` and a line break
\* between consecutive ones and nothing after the last; the text returned
\* is the declarations of the pre-bound names followed by the text of the
\* whole body, one part per statement of the body; the empty sequence and a
\* body that is only `pass` give the empty text.
C10_StatementSequence ==
    /\ \A i \in 1..Len(log) :
          /\ LaidOut(log[i].parts, log[i].t)
          /\ log[i].parts = <<>> => log[i].t = <<>>
    /\ Rendered =>
          /\ log # <<>>
          /\ Len(log[Len(log)].parts) = Len(_code.v)
          /\ out.txt = _initial_code_js \o log[Len(log)].t
          /\ (_orig.v = <<Pass>> /\ _initial_scope = <<>>) => out.txt = <<>>

\* reached: a pass that joined three non-empty statements at the top level
\* and an empty sequence (an absent else branch) inside
C10_Witness ==
    /\ Rendered
    /\ Len(log) >= 2
    /\ \E i \in 1..Len(log) : log[i].parts = <<>>
    /\ Len(log[Len(log)].parts) = 3
    /\ \A j \in 1..3 : log[Len(log)].parts[j] # <<>>

\* reached: the body that is only `pass`
C10_WitnessPass == Rendered /\ _orig.v = <<Pass>> /\ out.txt = <<>>

\* --------------------------------------------- the first pass of a function
FirstPass == calls = 1 /\ Rendered
Unbound == _initial_scope = <<>>

SameName(i, j) == Emitted[i].name = Emitted[j].name
SameFrame(i, j) == Frame(Emitted[i]) = Frame(Emitted[j])

\* the loop variables and the ids of the for blocks around an assignment
ForVars(e) == UNION {e.path[i].params : i \in Blocks_(e, {"for"})}
ForIds(e) == {e.path[i].id : i \in Blocks_(e, {"for"})}

\* assignment j is the first one to its name in its frame
First(j) == ~\E i \in 1..(j - 1) : SameName(i, j) /\ SameFrame(i, j)

\* the name of assignment j is known from outside its frame: a parameter, a
\* loop variable, or a name assigned earlier in a frame around it
FromOutside(j) ==
    \/ Emitted[j].name \in FnParams(Emitted[j]) \cup ForVars(Emitted[j])
    \/ \E i \in 1..(j - 1) :
          /\ SameName(i, j)
          /\ ~SameFrame(i, j)
          /\ Frame(Emitted[i]) \in Frames(Emitted[j])

\* ------------------------------------------------------------------ C1
\* C1 (declaration once): among the assignments to one simple name in one
\* scope frame (the top level or a function body, its if/while blocks
\* included), the first is written `var x = ...` and every later one is
\* written `x = ...`, whatever the length of the name.  (A first assignment
\* to a name known from outside the frame is left free.)
C1_DeclarationOnce ==
    (FirstPass /\ Unbound) =>
        \A j \in 1..Len(Emitted) :
            IsName(Emitted[j].name) =>
                /\ ~First(j) => ~Emitted[j].var
                /\ (First(j) /\ ~FromOutside(j)) => Emitted[j].var

\* ------------------------------------------------------------------ C2
\* the statement sequence that ends with the chained assignment: the body
\* of the function, or the body of the one function definition in it
Host ==
    IF Len(_orig.v) = 1 /\ _orig.v[1].cls = "FunctionDef" THEN _orig.v[1].body
    ELSE _orig
Chain == Host.v[Len(Host.v)]

\* a target as it is written
Written(tg) ==
    IF tg.cls = "Name" THEN tg.id.s
    ELSE tg.value.id.s \o <<".">> \o tg.attr.s

\* C2 (chained assignment): an assignment with targets t1..tn and one value
\* comes out as exactly n statements in target order, all with the same
\* right-hand side; a simple name gets `var` exactly when no parameter and
\* no earlier assignment -- of an earlier statement or of an earlier target
\* of the chain -- has that name, and any other target is assigned plainly.
C2_ChainFanOut ==
    (FirstPass /\ Unbound
       /\ Chain \in Chains
       /\ \A k \in 1..(Len(Host.v) - 1) : Host.v[k] \in Assigns) =>
        LET n == Len(Chain.targets.v)
            m == Len(Emitted)
        IN /\ m = Len(Host.v) - 1 + n
           /\ \A i \in 1..n :
                 LET j == m - n + i
                     e == Emitted[j]
                 IN /\ e.name = Written(Chain.targets.v[i])
                    /\ e.val = <<"1">>
                    /\ e.var <=>
                         /\ Chain.targets.v[i].cls = "Name"
                         /\ e.name \notin FnParams(e)
                         /\ ~\E k \in 1..(j - 1) : SameName(k, j)

\* ------------------------------------------------------------------ C4
InIf(e) == Within(e) \cap {"if", "else"} # {}

\* C4 (the branches of an if share the frame): inside the branches of an
\* if, a simple name assigned before in the frame -- before the
\* conditional or in it -- is assigned plainly, and one first assigned
\* there gets `var`; after a first assignment in the `if` branch, every
\* later assignment to the name in the frame (in the else branch, after
\* the conditional) is plain.
C4_IfSharesFrame ==
    (FirstPass /\ Unbound) =>
        \A j \in 1..Len(Emitted) :
            IsName(Emitted[j].name) =>
                /\ InIf(Emitted[j]) =>
                      /\ ~First(j) => ~Emitted[j].var
                      /\ (First(j) /\ ~FromOutside(j)) => Emitted[j].var
                /\ (\E i \in 1..(j - 1) :
                       SameName(i, j) /\ SameFrame(i, j) /\ InIf(Emitted[i]))
                     => ~Emitted[j].var

\* ------------------------------------------------------------------ C5
\* assignment i is in scope at assignment j when the for-loop bodies are
\* frames of their own: i stands in a frame around j and in no loop body
\* that j is outside of
Visible(i, j) ==
    /\ Frame(Emitted[i]) \in Frames(Emitted[j])
    /\ ForIds(Emitted[i]) \subseteq ForIds(Emitted[j])

\* C5 (for-loop body): an assignment to the loop variable in the body is
\* written without `var`; and a name whose earlier assignments all stand in
\* loop bodies that have ended is written with `var` when it is assigned
\* after the loop.
C5_ForBodyScope ==
    (FirstPass /\ Unbound) =>
        \A j \in 1..Len(Emitted) :
            IsName(Emitted[j].name) =>
                /\ Emitted[j].name \in ForVars(Emitted[j]) => ~Emitted[j].var
                /\ ( /\ \E i \in 1..(j - 1) : SameName(i, j) /\ SameFrame(i, j)
                     /\ \A i \in 1..(j - 1) : SameName(i, j) => ~Visible(i, j)
                     /\ Emitted[j].name \notin FnParams(Emitted[j]) )
                   => Emitted[j].var

\* ------------------------------------------------------------------ C6
\* C6 (repeatable rendering): a second or later str() call returns what the
\* call before it returned.
C6_Repeatable == calls >= 2 => out = prev

\* ------------------------------------------------------------------ C7
\* the classes of the nodes of a tree, in whatever field they stand
RECURSIVE Classes(_)
Classes(x) ==
    CASE x.ty = "node" ->
           {x.cls} \cup UNION {Classes(x[f]) : f \in DOMAIN x \ {"ty", "cls"}}
      [] x.ty = "list" -> UNION {Classes(x.v[i]) : i \in 1..Len(x.v)}
      [] OTHER -> {}

\* the classes without a rule; arg and keyword are the parts of a parameter
\* list and of a call, which have no rule of their own to be looked up
NoRule(x) == Classes(x) \ (_PARSERS \cup {"arg", "keyword"})

\* C7 (unsupported constructs): when the tree contains, at any depth and in
\* any field, a node of a class without a rule, the pass fails with an
\* error that names such a class, and returns no text.
C7_UnsupportedFails ==
    (calls = 1 /\ NoRule(_orig) # {}) =>
        /\ out.err \in NoRule(_orig)
        /\ out.txt = <<>>

\* ------------------------------------------------------------------ C8
ParenKinds == {"BinOp", "UnaryOp", "BoolOp", "Compare", "Lambda", "IfExp"}

\* the number of "(" less the number of ")" among the first k tokens
RECURSIVE Depth(_, _)
Depth(t, k) ==
    IF k = 0 THEN 0
    ELSE Depth(t, k - 1) + (IF t[k] = "(" THEN 1 ELSE IF t[k] = ")" THEN -1 ELSE 0)

\* the "(" at the first place of t matches the ")" at its last place
Enclosed(t) ==
    /\ Len(t) >= 2
    /\ t[1] = "("
    /\ t[Len(t)] = ")"
    /\ \A k \in 1..(Len(t) - 1) : Depth(t, k) > 0
    /\ Depth(t, Len(t)) = 0

\* C8 (over-parenthesization): the text of a BinOp, UnaryOp, BoolOp,
\* Compare, Lambda or IfExp node -- here the node of an expression
\* statement that is the whole body -- is enclosed in one pair of
\* parentheses.
C8_Parenthesized ==
    (FirstPass /\ Unbound /\ Len(_orig.v) = 1 /\ _orig.v[1].cls = "Expr"
       /\ _orig.v[1].value.cls \in ParenKinds) => Enclosed(out.txt)

\* ------------------------------------------------------------------ C9
IsPrefix(p, t) == Len(p) <= Len(t) /\ SubSeq(t, 1, Len(p)) = p

\* C9 (pre-bound names): the text starts with one `var name = value`
\* declaration per pre-bound name, in the order of the mapping, and no
\* assignment to a pre-bound name in the body is written with `var`.
C9_PreBound ==
    (FirstPass /\ ~Unbound) =>
        LET K == Len(_initial_scope) IN
        /\ IsPrefix(_initial_code_js, out.txt)
        /\ Len(Assignments(_initial_code_js)) = K
        /\ Len(Emitted) >= K
        /\ \A i \in 1..K :
              /\ Emitted[i].name = _initial_scope[i].k
              /\ Emitted[i].var
              /\ Emitted[i].val = _to_str(_initial_scope[i].v, <<>>).t
              /\ Len(Emitted[i].path) = 1
        /\ \A j \in (K + 1)..Len(Emitted) :
              Emitted[j].name \in Keys(_initial_scope) => ~Emitted[j].var

\* ------------------------------------------------------------------ C11
\* what the pass of thread i has done to its tree and its scope when it runs
\* alone and stands before its statement k
AloneAt(i, k) ==
    LET f == jsfuncs[i]
        r == RenderSeq(SubSeq(f._orig.v, 1, k - 1),
                       NewScope(<<Keys(f._initial_scope)>>))
    IN [code |-> VList(r.n \o SubSeq(f._orig.v, k, Len(f._orig.v))),
        scope |-> r.s]

\* what str() of the function of thread i returns when it runs alone
Alone(i) ==
    LET f == jsfuncs[i]
        r == _to_str(f._orig, NewScope(<<Keys(f._initial_scope)>>))
    IN IF r.e # "" THEN [txt |-> <<>>, err |-> r.e]
       ELSE [txt |-> f._initial_code_js \o r.t, err |-> ""]

\* C11 (independent passes): two passes over two trees, each with its own
\* scope chain, interleave their steps in any order; at every step the tree
\* and the scope frames of each pass are what they are when that pass runs
\* alone to the same statement (so neither pass changes the other's), and
\* each pass returns, or fails with, what it does when it runs alone.
C11_IndependentPasses ==
    threads # <<>> =>
        \A i \in Threads :
            LET t == threads[i]
                a == AloneAt(i, t.k)
            IN /\ jsfuncs[i]._code = a.code
               /\ t.pc # "idle" => scopes[t.scope] = a.scope
               /\ t.pc = "done" => t.out = Alone(i)

\* both passes are under way at once, each after its first statement, and
\* each has declared the same name in its own frame
C11_Witness ==
    /\ threads # <<>>
    /\ \A i \in Threads :
          /\ threads[i].pc = "run"
          /\ threads[i].k = 2
          /\ threads[i].parts = <<<<"var ", "a", "b", " = ", "1">>>>
          /\ <<"a">> \in scopes[threads[i].scope][2]

\* ------------------------------------------------------------------ C12
\* the assignments of the last pass whose target is a simple name
NameWrites == {i \in 1..Len(trace) : trace[i].ev = "assign" /\ IsName(trace[i].t)}

\* C12 (exact scope membership): at every assignment of a pass to a simple
\* name, once the name is written with `var` that whole name is in scope
\* (it was recorded in the frame), and the membership of every other name
\* is what it was before the assignment (nothing but that name was
\* recorded).
C12_ExactMembership ==
    \A i \in NameWrites :
        LET e == trace[i] IN
        /\ e.var => contains(e.after, e.t)
        /\ \A n \in Names \ {e.t} : contains(e.after, n) = contains(e.before, n)

\* ------------------------------------------------------------------ C13
Definitions == {i \in 1..Len(trace) : trace[i].ev = "def"}

\* an earlier assignment stands in the frame of assignment j or in a frame
\* around it
SeenBefore(j) ==
    \E i \in 1..(j - 1) : Frame(Emitted[i]) \in Frames(Emitted[j])

CompoundTargets ==
    {i \in 1..Len(trace) :
        trace[i].ev = "assign" /\ trace[i].cls \in {"Attribute", "Subscript"}}

\* C14 (compound targets): an assignment to an attribute access or to a
\* subscript is written without `var`, the first time as every later time,
\* and the scope chain after it is the chain before it; in the text
\* returned no target with a `.` or a `[` in it follows `var`.
C14_CompoundTarget ==
    /\ \A i \in CompoundTargets :
          /\ ~trace[i].var
          /\ trace[i].after = trace[i].before
    /\ Rendered =>
          \A j \in 1..Len(Emitted) :
              (Has(".", Emitted[j].name) \/ Has("[", Emitted[j].name))
              => ~Emitted[j].var

\* a subscript was assigned twice in a frame that has a declaration in it
C14_Witness ==
    /\ FirstPass
    /\ \E i \in CompoundTargets, j \in CompoundTargets :
          /\ i < j
          /\ trace[i].cls = "Subscript"
          /\ trace[i].t = trace[j].t
          /\ trace[i].before[Len(trace[i].before)] # {}
    /\ \E j \in 1..Len(Emitted) : Has("[", Emitted[j].name)

\* ------------------------------------------------------------------ C15
\* the reads of field k made without the raw_ prefix
RenderedReads(k) == {i \in 1..Len(reads) : reads[i].k = k /\ ~reads[i].raw}

\* C15 (idempotent memoization): the reads of one field of one node through
\* one wrapper all return the same value, and _to_str is called for that
\* field in at most one of them.
C15_Memoized ==
    reads # <<>> =>
        \A k \in Fields(original) :
            /\ \A i \in RenderedReads(k), j \in RenderedReads(k) :
                  reads[i].val = reads[j].val
            /\ Cardinality({i \in 1..Len(reads) :
                              reads[i].k = k /\ reads[i].rendered}) <= 1

\* the body of an if statement, whose rendering declares a name, was read
\* three times and rendered once
C15_Witness ==
    /\ reads # <<>>
    /\ original.cls = "If"
    /\ Cardinality(RenderedReads("body")) = 3
    /\ reads[1].rendered
    /\ reads[3].val = VStr(<<"var ", "a", " = ", "1">>)
    /\ wrapper._scope # reads[1].before

\* ------------------------------------------------------------------ C16
Min(S) == CHOOSE x \in S : \A y \in S : x <= y

\* the text of field k: its original value rendered in the scope of the
\* first read that asked for the text
Text(k) == _to_str(original[k], reads[Min(RenderedReads(k))].before).t

\* C16 (raw and rendered reads): every read of a field with the raw_ prefix
\* returns the field's original value and every read without it returns
\* the field's rendered text, whatever reads of that field came before.
C16_RawAndRendered ==
    \A i \in 1..Len(reads) :
        reads[i].e = "" =>
            /\ reads[i].raw => reads[i].val = original[reads[i].k]
            /\ ~reads[i].raw => reads[i].val = VStr(Text(reads[i].k))
====
